---------------------------- MODULE Spec2Model ----------------------------
(* A state-machine model of the trivia API request handlers of             *)
(* backend/flaskr/__init__.py: the Question and Category tables, the seven *)
(* endpoints, pagination, the ILIKE search and the random quiz selector.   *)
EXTENDS Integers, Sequences, FiniteSets, TLC

VARIABLES
    questions,           \* the Question table, rows in id order
    categories,          \* the Category table, rows in id order
    next_id,             \* the next value of the Question.id serial
    req,                 \* the request being served, NoRequest between requests
    resp,                \* the answer to it
    writes,              \* storage writes attempted by the last request
    before,              \* history: the tables as the last request found them
    deleted,             \* history: ids deleted since the last insert
    previous_questions,  \* the quiz client's list of ids already asked
    quiz_category,       \* the quiz client's fixed category id
    calls                \* the quiz client's number of POST /quizzes calls

vars == <<questions, categories, next_id, req, resp, writes, before, deleted,
          previous_questions, quiz_category, calls>>

-----------------------------------------------------------------------------
(* Bounds of the model. *)

\* largest Question.id the serial hands out
MaxId == 3
\* rows seeded in the Question table of the pagination specification
MaxTotal == 12
\* page numbers requested range over -MaxPage .. MaxPage
MaxPage == 3
\* rows seeded in the Question table of the quiz-session specification
MaxQuizSeed == 4
\* random.random() is drawn from {k / RandomResolution : k in 0..RandomResolution-1}
RandomResolution == 4

QUESTIONS_PER_PAGE == 10

-----------------------------------------------------------------------------
(* JSON values of a request: null (also a missing key: dict.get gives None *)
(* for both), a string (a sequence of characters), an integer, a list of   *)
(* integers, an object.                                                    *)

JNull == [t |-> "null", s |-> <<>>, n |-> 0, l |-> <<>>]
JStr(x) == [t |-> "str", s |-> x, n |-> 0, l |-> <<>>]
JInt(k) == [t |-> "int", s |-> <<>>, n |-> k, l |-> <<>>]
JList(x) == [t |-> "list", s |-> <<>>, n |-> 0, l |-> x]
JObj == [t |-> "obj", s |-> <<>>, n |-> 0, l |-> <<>>]

\* Python truthiness of a JSON value (if search_term:)
Truthy(v) ==
    \/ v.t = "str" /\ v.s # <<>>
    \/ v.t = "int" /\ v.n # 0
    \/ v.t = "list" /\ v.l # <<>>
    \/ v.t = "obj"

\* a JSON request body: isobj is FALSE when request.get_json() gives None
EmptyBody ==
    [isobj |-> TRUE, question |-> JNull, answer |-> JNull, category |-> JNull,
     difficulty |-> JNull, searchTerm |-> JNull, previous_questions |-> JNull,
     quiz_category |-> JNull, quiz_category_id |-> JNull]
NoBody == [EmptyBody EXCEPT !.isobj = FALSE]

-----------------------------------------------------------------------------
(* Sequences. *)

Range(s) == {s[i] : i \in 1..Len(s)}

Ids(qs) == {qs[i].id : i \in 1..Len(qs)}

RECURSIVE Filter(_, _)
\* the rows of qs, in order, whose index is in the set keep
Filter(qs, keep) ==
    IF qs = <<>> THEN <<>>
    ELSE LET n == Len(qs)
             front == Filter(SubSeq(qs, 1, n - 1), keep)
         IN IF n \in keep THEN Append(front, qs[n]) ELSE front

Reverse(s) == [i \in 1..Len(s) |-> s[Len(s) + 1 - i]]

RECURSIVE Ascending(_)
\* the elements of a finite set of integers in ascending order
Ascending(S) ==
    IF S = {} THEN <<>>
    ELSE LET m == CHOOSE x \in S : \A y \in S : x <= y
         IN <<m>> \o Ascending(S \ {m})

Min(a, b) == IF a < b THEN a ELSE b
Max(a, b) == IF a > b THEN a ELSE b

\* Python's s[start:end] on a list, negative indices counted from the end
Slice(s, start, end) ==
    LET n == Len(s)
        lo == IF start < 0 THEN Max(start + n, 0) ELSE Min(start, n)
        hi == IF end < 0 THEN Max(end + n, 0) ELSE Min(end, n)
    IN IF lo < hi THEN SubSeq(s, lo + 1, hi) ELSE <<>>

-----------------------------------------------------------------------------
(* The seeded tables. *)

SeedTexts == << <<"A", "b">>, <<"b">>, <<"a", "_">>, <<>> >>

SeedCategories == << [id |-> 1, type |-> "Science"], [id |-> 2, type |-> "Art"] >>

NumCategories == Len(SeedCategories)

SeedQuestion(i) ==
    [id |-> i, question |-> SeedTexts[((i - 1) % 4) + 1], answer |-> <<"x">>,
     category |-> ((i - 1) % NumCategories) + 1, difficulty |-> 1]

SeedQuestions(n) == [i \in 1..n |-> SeedQuestion(i)]


-----------------------------------------------------------------------------
(* Storage access (models.py): Question.format, insert and delete.         *)

\* Question.format(): the five externally visible fields of a row
Format(q) ==
    [id |-> q.id, question |-> q.question, answer |-> q.answer,
     category |-> q.category, difficulty |-> q.difficulty]

FormatAll(qs) == [i \in 1..Len(qs) |-> Format(qs[i])]

\* Question(...).insert(): one new row, its id taken from the serial; an
\* insert that raises adds no row
Insert(qs, nid, question, answer, category, difficulty) ==
    Append(qs, [id |-> nid, question |-> question, answer |-> answer,
                category |-> category, difficulty |-> difficulty])

\* question.delete(): the row with that id is removed
Delete(qs, id) == Filter(qs, {i \in 1..Len(qs) : qs[i].id # id})

\* Question.query.get(id): the row with that id, as a sequence of 0 or 1 rows
Get(qs, id) == Filter(qs, {i \in 1..Len(qs) : qs[i].id = id})

\* rows come back from an unordered query in an order the store chooses
InOrder(qs, order) == IF order = "desc" THEN Reverse(qs) ELSE qs

-----------------------------------------------------------------------------
(* Responses. status 500 stands for an exception no handler catches.       *)

Answer(status) ==
    [status |-> status, questions |-> <<>>, total_questions |-> 0,
     question_id |-> 0, question |-> <<>>, categories |-> {},
     current_category |-> 0, headers |-> {}]

\* the after_request hook: the CORS headers go on every response
after_request(response) ==
    [response EXCEPT !.headers = @ \cup {"Access-Control-Allow-Headers",
                                         "Access-Control-Allow-Methods"}]

\* abort(400), abort(404), abort(422) through the registered error handlers
Abort(status) == Answer(status)

Unhandled == Answer(500)

\* what a handler leaves behind: its answer, the tables, the writes it tried
Outcome(r, qs, nid, w) ==
    [resp |-> r, questions |-> qs, next_id |-> nid, writes |-> w]

FormattedCategories(cats) == {<<cats[i].id, cats[i].type>> : i \in 1..Len(cats)}

-----------------------------------------------------------------------------
(* Pagination. *)

\* request.args.get('page', 1, type=int)
PageArg(page) == IF page.t = "int" THEN page.n ELSE 1

\* mutant: the page number taken as 0-based
paginate_questions_zero_based(page, selections) ==
    LET start == PageArg(page) * QUESTIONS_PER_PAGE
        end == start + QUESTIONS_PER_PAGE
    IN Slice(selections, start, end)

paginate_questions(page, selections) ==
    LET start == (PageArg(page) - 1) * QUESTIONS_PER_PAGE
        end == start + QUESTIONS_PER_PAGE
    IN Slice(selections, start, end)

-----------------------------------------------------------------------------
(* ILIKE: PostgreSQL's case-insensitive LIKE. In the pattern % stands for  *)
(* any run of characters and _ for any one character.                      *)

Lower(c) == IF c = "A" THEN "a" ELSE IF c = "B" THEN "b" ELSE c

RECURSIVE Like(_, _)
Like(pat, txt) ==
    IF pat = <<>> THEN txt = <<>>
    ELSE IF Head(pat) = "%"
    THEN Like(Tail(pat), txt) \/ (txt # <<>> /\ Like(pat, Tail(txt)))
    ELSE /\ txt # <<>>
         /\ (Head(pat) = "_" \/ Lower(Head(pat)) = Lower(Head(txt)))
         /\ Like(Tail(pat), Tail(txt))

\* Question.question.ilike('%' + search_term + '%')
ILikeTerm(text, search_term) == Like(<<"%">> \o search_term \o <<"%">>, text)

-----------------------------------------------------------------------------
(* The handlers. Each gives the Outcome of one request on the tables       *)
(* (qs, cats, nid). fault names the storage call that raises: "none",      *)
(* "read" (a query) or "write" (a commit).                                 *)

get_categories(qs, cats, nid, fault) ==
    IF fault = "read" THEN Outcome(Unhandled, qs, nid, 0)
    ELSE Outcome([Answer(200) EXCEPT !.categories = FormattedCategories(cats)],
                 qs, nid, 0)

get_questions(qs, cats, nid, page, fault) ==
    IF fault = "read" THEN Outcome(Unhandled, qs, nid, 0)
    ELSE LET selections == qs
             page_questions == paginate_questions(page, selections)
         IN IF Len(page_questions) = 0 THEN Outcome(Abort(404), qs, nid, 0)
            ELSE Outcome([Answer(200) EXCEPT
                              !.questions = FormatAll(page_questions),
                              !.total_questions = Len(selections),
                              !.categories = FormattedCategories(cats)],
                         qs, nid, 0)

\* mutant: success is answered without question.delete() being called
delete_question_keeps_row(qs, nid, question_id, fault) ==
    IF fault = "read" THEN Outcome(Unhandled, qs, nid, 0)
    ELSE LET question == Get(qs, question_id)
         IN IF question = <<>> THEN Outcome(Abort(404), qs, nid, 0)
            ELSE Outcome([Answer(200) EXCEPT !.question_id = question_id],
                         qs, nid, 0)

delete_question(qs, nid, question_id, fault) ==
    IF fault = "read" THEN Outcome(Unhandled, qs, nid, 0)
    ELSE LET question == Get(qs, question_id)
         IN IF question = <<>> THEN Outcome(Abort(404), qs, nid, 0)
            ELSE IF fault = "write" THEN Outcome(Abort(422), qs, nid, 1)
            ELSE Outcome([Answer(200) EXCEPT !.question_id = question_id],
                         Delete(qs, question_id), nid, 1)

\* mutant: "if not question or ..." in place of the "is None" tests
post_question_truthy(qs, nid, body, fault) ==
    IF ~body.isobj THEN Outcome(Unhandled, qs, nid, 0)
    ELSE IF \/ ~Truthy(body.question)
            \/ ~Truthy(body.answer)
            \/ ~Truthy(body.difficulty)
            \/ ~Truthy(body.category)
    THEN Outcome(Abort(400), qs, nid, 0)
    ELSE IF fault = "write" THEN Outcome(Abort(422), qs, nid, 1)
    ELSE Outcome(Answer(200),
                 Insert(qs, nid, body.question.s, body.answer.s, body.category.n,
                        body.difficulty.n),
                 nid + 1, 1)

\* mutant: the test of category left out of the validation
post_question_unchecked_category(qs, nid, body, fault) ==
    IF ~body.isobj THEN Outcome(Unhandled, qs, nid, 0)
    ELSE IF \/ body.question.t = "null"
            \/ body.answer.t = "null"
            \/ body.difficulty.t = "null"
    THEN Outcome(Abort(400), qs, nid, 0)
    ELSE IF fault = "write" THEN Outcome(Abort(422), qs, nid, 1)
    ELSE Outcome(Answer(200),
                 Insert(qs, nid, body.question.s, body.answer.s, body.category.n,
                        body.difficulty.n),
                 nid + 1, 1)

post_question(qs, nid, body, fault) ==
    IF ~body.isobj THEN Outcome(Unhandled, qs, nid, 0)
    ELSE LET question == body.question
             answer == body.answer
             difficulty == body.difficulty
             category == body.category
         IN IF \/ question.t = "null"
               \/ answer.t = "null"
               \/ difficulty.t = "null"
               \/ category.t = "null"
            THEN Outcome(Abort(400), qs, nid, 0)
            ELSE IF fault = "write" THEN Outcome(Abort(422), qs, nid, 1)
            ELSE Outcome(Answer(200),
                         Insert(qs, nid, question.s, answer.s, category.n,
                                difficulty.n),
                         nid + 1, 1)

search_question(qs, nid, body, page, fault, order) ==
    IF ~body.isobj THEN Outcome(Unhandled, qs, nid, 0)
    ELSE LET search_term == body.searchTerm
         IN IF ~Truthy(search_term) THEN Outcome(Abort(400), qs, nid, 0)
            ELSE IF search_term.t # "str" \/ fault = "read"
            THEN Outcome(Unhandled, qs, nid, 0)
            ELSE LET selections ==
                         InOrder(Filter(qs, {i \in 1..Len(qs) :
                                     ILikeTerm(qs[i].question, search_term.s)}),
                                 order)
                     page_questions == paginate_questions(page, selections)
                 IN Outcome([Answer(200) EXCEPT
                                 !.questions = FormatAll(page_questions),
                                 !.total_questions = Len(selections)],
                            qs, nid, 0)

select_categoty(qs, cats, nid, catetory_id, page, fault, order) ==
    IF fault = "read" THEN Outcome(Unhandled, qs, nid, 0)
    ELSE IF \A i \in 1..Len(cats) : cats[i].id # catetory_id
    THEN Outcome(Abort(404), qs, nid, 0)
    ELSE LET selections ==
                 InOrder(Filter(qs, {i \in 1..Len(qs) :
                                         qs[i].category = catetory_id}),
                         order)
             page_questions == paginate_questions(page, selections)
         IN Outcome([Answer(200) EXCEPT
                         !.questions = FormatAll(page_questions),
                         !.total_questions = Len(selections),
                         !.current_category = catetory_id],
                    qs, nid, 0)

\* mutant: an index drawn from [left, right], right included
random_number_inclusive(left, right, r) ==
    ((right - left + 1) * r) \div RandomResolution + left

\* int((right - left) * random.random() + left), random.random() = r / RandomResolution
random_number(left, right, r) == ((right - left) * r) \div RandomResolution + left

\* mutant: the notin_(previous_questions) filter left out
QuizPool_keeps_previous(qs, quiz_category_id, previous) ==
    Filter(qs, IF quiz_category_id.t = "int" /\ quiz_category_id.n = 0
               THEN 1..Len(qs)
               ELSE {i \in 1..Len(qs) : /\ quiz_category_id.t = "int"
                                        /\ qs[i].category = quiz_category_id.n})

\* the rows the quiz query of next_question selects; the query has no
\* order_by, and every row of it can be drawn whatever order it comes in
QuizPool(qs, quiz_category_id, previous) ==
    LET selections ==
            IF quiz_category_id.t = "int" /\ quiz_category_id.n = 0
            THEN 1..Len(qs)
            ELSE {i \in 1..Len(qs) : /\ quiz_category_id.t = "int"
                                     /\ qs[i].category = quiz_category_id.n}
    IN Filter(qs, {i \in selections : qs[i].id \notin Range(previous.l)})

next_question(qs, nid, body, fault, r) ==
    IF \/ ~body.isobj
       \/ body.quiz_category.t # "obj"
       \/ body.previous_questions.t # "list"
       \/ fault = "read"
    THEN Outcome(Abort(422), qs, nid, 0)
    ELSE LET pool == QuizPool(qs, body.quiz_category_id, body.previous_questions)
         IN IF Len(pool) = 0 THEN Outcome(Abort(404), qs, nid, 0)
            ELSE LET randam_index == random_number(0, Len(pool), r)
                 IN IF randam_index \in 0..(Len(pool) - 1)
                    THEN Outcome([Answer(200) EXCEPT
                                      !.question = <<Format(pool[randam_index + 1])>>],
                                 qs, nid, 0)
                    ELSE Outcome(Unhandled, qs, nid, 0)

-----------------------------------------------------------------------------------------------------------------------------------------------------------------------------------------------------------------------------
(* The requests the clients send. *)

Request(op, page, id, body, fault) ==
    [op |-> op, page |-> page, id |-> id, body |-> body, fault |-> fault]

NoRequest == Request("none", JNull, 0, NoBody, "none")

\* no page argument, or one of -MaxPage .. MaxPage
Pages == {JNull} \cup {JInt(p) : p \in (0 - MaxPage)..MaxPage}

\* the store-dynamics specification asks for the default page and the second
StorePages == {JNull, JInt(2)}

Orders == {"asc", "desc"}

\* 0 is the quiz's "all categories"; NumCategories + 1 is no category's id
CategoryIds == 0..(NumCategories + 1)

CompletePost ==
    [EmptyBody EXCEPT !.question = JStr(<<"a", "B">>), !.answer = JStr(<<"x">>),
                      !.category = JInt(1), !.difficulty = JInt(1)]

\* POST /questions bodies: complete; texts and difficulty falsy and a category
\* that does not exist; a falsy category; each one field missing; every field
\* missing; no body at all
PostBodies ==
    { CompletePost,
      [CompletePost EXCEPT !.question = JStr(<<>>), !.answer = JStr(<<>>),
                           !.category = JInt(NumCategories + 1),
                           !.difficulty = JInt(0)],
      [CompletePost EXCEPT !.category = JInt(0)],
      [CompletePost EXCEPT !.question = JNull],
      [CompletePost EXCEPT !.answer = JNull],
      [CompletePost EXCEPT !.category = JNull],
      [CompletePost EXCEPT !.difficulty = JNull],
      EmptyBody,
      NoBody }

SearchBody(term) == [EmptyBody EXCEPT !.searchTerm = term]

SearchTerms ==
    { JNull, JStr(<<>>), JInt(0), JInt(5), JStr(<<"a">>), JStr(<<"B">>),
      JStr(<<"a", "b">>), JStr(<<"_">>), JStr(<<"%">>), JStr(<<"c">>) }

SearchBodies == {SearchBody(t) : t \in SearchTerms} \cup {NoBody}

StoreSearchBodies ==
    {SearchBody(t) : t \in {JNull, JStr(<<>>), JInt(5), JStr(<<"a">>), JStr(<<"_">>)}}
        \cup {NoBody}

QuizBody(previous, category, id) ==
    [EmptyBody EXCEPT !.previous_questions = previous, !.quiz_category = category,
                      !.quiz_category_id = id]

WellFormedQuizBodies ==
    {QuizBody(JList(Ascending(S)), JObj, JInt(c)) :
        S \in SUBSET (1..MaxId), c \in CategoryIds}

\* no body, no keys, no quiz_category, a quiz_category that is no object, no
\* id in quiz_category, previous_questions missing or no list
MalformedQuizBodies ==
    { NoBody, EmptyBody,
      QuizBody(JList(<<>>), JNull, JNull),
      QuizBody(JList(<<>>), JInt(1), JNull),
      QuizBody(JList(<<>>), JObj, JNull),
      QuizBody(JNull, JObj, JInt(0)),
      QuizBody(JInt(1), JObj, JInt(0)) }

QuizBodies == WellFormedQuizBodies \cup MalformedQuizBodies

\* random.random() is called only once the pool is known not to be empty
Draws(out) ==
    IF out.resp.status \in {404, 422} THEN {0} ELSE 0..(RandomResolution - 1)

-----------------------------------------------------------------------------
(* The actions: one per endpoint, the end of a request, and the quiz       *)
(* client's session step.                                                  *)

Idle == req.op = "none"

Tables(qs, cats, gone) == [questions |-> qs, categories |-> cats, deleted |-> gone]

Serve(r, out) ==
    /\ Idle
    /\ req' = r
    /\ resp' = after_request(out.resp)
    /\ questions' = out.questions
    /\ next_id' = out.next_id
    /\ writes' = out.writes
    /\ before' = Tables(questions, categories, deleted)
    /\ UNCHANGED categories

\* the response is returned and the request context is popped
Teardown ==
    /\ ~Idle
    /\ req' = NoRequest
    /\ resp' = Answer(0)
    /\ writes' = 0
    /\ before' = Tables(questions, categories, deleted)
    /\ UNCHANGED <<questions, categories, next_id, deleted, previous_questions,
                   quiz_category, calls>>

GetCategories ==
    \E fault \in {"none", "read"} :
        /\ Serve(Request("get_categories", JNull, 0, NoBody, fault),
                 get_categories(questions, categories, next_id, fault))
        /\ UNCHANGED <<deleted, previous_questions, quiz_category, calls>>

GetQuestions(pages) ==
    \E page \in pages, fault \in {"none", "read"} :
        /\ Serve(Request("get_questions", page, 0, NoBody, fault),
                 get_questions(questions, categories, next_id, page, fault))
        /\ UNCHANGED <<deleted, previous_questions, quiz_category, calls>>

DeleteQuestion ==
    \E question_id \in 1..(MaxId + 1), fault \in {"none", "read", "write"} :
        LET out == delete_question(questions, next_id, question_id, fault)
        IN /\ Serve(Request("delete_question", JNull, question_id, NoBody, fault),
                    out)
           /\ deleted' = IF out.resp.status = 200
                         THEN deleted \cup {question_id} ELSE deleted
           /\ UNCHANGED <<previous_questions, quiz_category, calls>>

PostQuestion ==
    /\ next_id <= MaxId
    /\ \E body \in PostBodies, fault \in {"none", "write"} :
        LET out == post_question(questions, next_id, body, fault)
        IN /\ Serve(Request("post_question", JNull, 0, body, fault), out)
           /\ deleted' = IF Ids(out.questions) \subseteq Ids(questions)
                         THEN deleted ELSE {}
           /\ UNCHANGED <<previous_questions, quiz_category, calls>>

SearchQuestion(bodies, pages) ==
    \E body \in bodies, page \in pages, fault \in {"none", "read"},
       order \in Orders :
        /\ Serve(Request("search_question", page, 0, body, fault),
                 search_question(questions, next_id, body, page, fault, order))
        /\ UNCHANGED <<deleted, previous_questions, quiz_category, calls>>

SelectCategory(pages) ==
    \E catetory_id \in CategoryIds, page \in pages, fault \in {"none", "read"},
       order \in Orders :
        /\ Serve(Request("select_categoty", page, catetory_id, NoBody, fault),
                 select_categoty(questions, categories, next_id, catetory_id,
                                 page, fault, order))
        /\ UNCHANGED <<deleted, previous_questions, quiz_category, calls>>

NextQuestion ==
    \E body \in QuizBodies, fault \in {"none", "read"} :
        \E r \in Draws(next_question(questions, next_id, body, fault, 0)) :
            /\ Serve(Request("next_question", JNull, 0, body, fault),
                     next_question(questions, next_id, body, fault, r))
            /\ UNCHANGED <<deleted, previous_questions, quiz_category, calls>>

\* the quiz client: it sends its list and its category, and appends the id
\* of the question it gets; it stops at the first answer that is no question
QuizCall ==
    /\ Len(previous_questions) = calls
    /\ \E r \in 0..(RandomResolution - 1) :
        LET body == QuizBody(JList(previous_questions), JObj, JInt(quiz_category))
            out == next_question(questions, next_id, body, "none", r)
        IN /\ Serve(Request("next_question", JNull, 0, body, "none"), out)
           /\ calls' = calls + 1
           /\ previous_questions' =
                  IF out.resp.status = 200
                  THEN Append(previous_questions, out.resp.question[1].id)
                  ELSE previous_questions
           /\ UNCHANGED <<deleted, quiz_category>>

-----------------------------------------------------------------------------
(* The specifications. *)

Start(qs, nid, c) ==
    /\ questions = qs
    /\ next_id = nid
    /\ categories = SeedCategories
    /\ req = NoRequest
    /\ resp = Answer(0)
    /\ writes = 0
    /\ before = Tables(qs, SeedCategories, {})
    /\ deleted = {}
    /\ previous_questions = <<>>
    /\ quiz_category = c
    /\ calls = 0

\* the store under every request: tables that grow and shrink, from an empty
\* Question table or from a seeded one
Init == \E n \in 0..(MaxId - 1) : Start(SeedQuestions(n), n + 1, 0)

Next ==
    \/ PostQuestion
    \/ DeleteQuestion
    \/ GetCategories
    \/ GetQuestions(StorePages)
    \/ SearchQuestion(StoreSearchBodies, StorePages)
    \/ SelectCategory(StorePages)
    \/ NextQuestion
    \/ Teardown

Spec == Init /\ [][Next]_vars

\* the paginated reads over tables of more than one page: n seeded rows, or
\* n rows left of n + 1 seeded ones, the row of id 2 deleted
InitPage ==
    \E n \in 0..MaxTotal :
        \/ Start(SeedQuestions(n), n + 1, 0)
        \/ n >= 1 /\ Start(Delete(SeedQuestions(n + 1), 2), n + 2, 0)

NextPage ==
    \/ GetCategories
    \/ GetQuestions(Pages)
    \/ SearchQuestion(SearchBodies, Pages)
    \/ SelectCategory(Pages)
    \/ Teardown

SpecPage == InitPage /\ [][NextPage]_vars

\* one quiz session against tables nobody else changes
InitQuiz ==
    \E n \in 0..MaxQuizSeed, c \in CategoryIds : Start(SeedQuestions(n), n + 1, c)

NextQuiz ==
    \/ QuizCall
    \/ Teardown

SpecQuiz == InitQuiz /\ [][NextQuiz]_vars

-----------------------------------------------------------------------------
(* What the claims speak of. *)

Served(op) == req.op = op /\ req.fault = "none"

Ceil10(total) == (total + 9) \div 10

\* the rows at the id-ordered offsets (p-1)*10 .. (p-1)*10+9 that exist
PageOf(rows, p) ==
    [i \in 1..Min(10, Max(0, Len(rows) - 10 * (p - 1))) |-> rows[10 * (p - 1) + i]]

AscendingIds(rows) ==
    \A i, j \in 1..Len(rows) : i < j => rows[i].id < rows[j].id

\* term occurs in text, letter case ignored
Contains(text, term) ==
    \E k \in 0..(Len(text) - Len(term)) :
        \A j \in 1..Len(term) : Lower(text[k + j]) = Lower(term[j])

AllFourPresent(body) ==
    /\ body.isobj
    /\ body.question.t # "null"
    /\ body.answer.t # "null"
    /\ body.category.t # "null"
    /\ body.difficulty.t # "null"

\* the rows left for a quiz of category c once the ids in P are taken out
Eligible(rows, c, P) ==
    {rows[i] : i \in {k \in 1..Len(rows) :
                        /\ c = 0 \/ rows[k].category = c
                        /\ rows[k].id \notin Range(P)}}

-----------------------------------------------------------------------------
(* The claims. *)

\* C1: for every stored question list of size total and every page p >= 1,
\* GET /questions?page=p yields exactly the rows at the id-ordered offsets
\* (p-1)*10 .. (p-1)*10+9 that exist, min(10, max(0, total - 10*(p-1))) of
\* them; with none the answer is NotFound, otherwise total_questions = total.
C1_ListQuestionsPage ==
    (Served("get_questions") /\ PageArg(req.page) >= 1) =>
        LET total == Len(before.questions)
            p == PageArg(req.page)
            expected == PageOf(before.questions, p)
        IN /\ AscendingIds(before.questions)
           /\ Len(expected) = Min(10, Max(0, total - 10 * (p - 1)))
           /\ IF Len(expected) = 0
              THEN resp.status = 404
              ELSE /\ resp.status = 200
                   /\ resp.questions = expected
                   /\ resp.total_questions = total

\* a second page that is not full, of a table of more than ten rows
C1_Witness ==
    /\ Served("get_questions")
    /\ PageArg(req.page) = 2
    /\ resp.status = 200
    /\ Len(resp.questions) \in 1..9
    /\ resp.total_questions > 10

\* C2: DELETE /questions/{id} of an id that exists removes exactly that row
\* (every other question and every category unchanged) and answers success
\* echoing the id; every later DELETE of that id with no create in between
\* answers NotFound.
C2_DeleteExisting ==
    /\ (Served("delete_question") /\ req.id \in Ids(before.questions)) =>
           /\ resp.status = 200
           /\ resp.question_id = req.id
           /\ Len(questions) = Len(before.questions) - 1
           /\ Range(questions) =
                  {q \in Range(before.questions) : q.id # req.id}
           /\ categories = before.categories
    /\ (Served("delete_question") /\ req.id \in before.deleted) =>
           resp.status = 404

\* a second DELETE of an id, answered NotFound, other rows still stored
C2_Witness ==
    /\ Served("delete_question")
    /\ req.id \in before.deleted
    /\ resp.status = 404
    /\ questions # <<>>

\* C3: POST /questions with all four fields present adds exactly one question
\* and answers success, also when a present field is falsy ("" or 0) and when
\* category is no existing Category's id.
C3_CreateAllPresent ==
    (Served("post_question") /\ AllFourPresent(req.body)) =>
        /\ resp.status = 200
        /\ Len(questions) = Len(before.questions) + 1

\* a created question with falsy texts and difficulty and an unknown category
C3_Witness ==
    /\ Served("post_question")
    /\ req.body.question = JStr(<<>>)
    /\ req.body.difficulty = JInt(0)
    /\ \A i \in 1..Len(categories) : categories[i].id # req.body.category.n
    /\ resp.status = 200
    /\ Len(questions) = Len(before.questions) + 1

\* C4: a request answered BadRequest or NotFound leaves questions and
\* categories unchanged; DELETE of an id that does not exist answers 404;
\* POST /questions with a field omitted answers 400, the count unchanged and
\* no storage write attempted.
C4_ErrorsChangeNothing ==
    /\ resp.status \in {400, 404} =>
           /\ questions = before.questions
           /\ categories = before.categories
    /\ (Served("delete_question") /\ req.id \notin Ids(before.questions)) =>
           resp.status = 404
    /\ (req.op = "post_question" /\ req.body.isobj /\ ~AllFourPresent(req.body)) =>
           /\ resp.status = 400
           /\ Len(questions) = Len(before.questions)
           /\ writes = 0

\* a POST with exactly one field missing refused while rows are stored
C4_Witness ==
    /\ req.op = "post_question"
    /\ req.body.category = JNull
    /\ req.body.question # JNull
    /\ resp.status = 400
    /\ questions # <<>>

\* C5: POST /questions/search answers BadRequest for an empty or absent
\* searchTerm; for every non-empty term it answers success, total_questions
\* the number of stored questions whose text contains the term (letter case
\* ignored), the questions returned all and only matching ones (the page of
\* them asked for); no match is a success with an empty list.
C5_SearchSubstring ==
    (Served("search_question") /\ req.body.isobj
        /\ req.body.searchTerm.t \in {"null", "str"}) =>
        LET term == req.body.searchTerm
            matching == {q \in Range(before.questions) : Contains(q.question, term.s)}
        IN IF term.t = "null" \/ term.s = <<>>
           THEN resp.status = 400
           ELSE /\ resp.status = 200
                /\ resp.total_questions = Cardinality(matching)
                /\ Range(resp.questions) \subseteq matching
                /\ Cardinality(matching) <= 10 /\ PageArg(req.page) = 1
                       => Range(resp.questions) = matching

\* C6: a well-formed POST /quizzes (quiz_category.id = c, previous_questions
\* = P) is answered NotFound exactly when the eligible set is empty, and
\* otherwise with a member of the eligible set.
C6_QuizEligible ==
    (Served("next_question") /\ req.body \in WellFormedQuizBodies) =>
        LET c == req.body.quiz_category_id.n
            P == req.body.previous_questions.l
            eligible == Eligible(before.questions, c, P)
        IN /\ resp.status = 404 <=> eligible = {}
           /\ eligible # {} =>
                  /\ resp.status = 200
                  /\ Len(resp.question) = 1
                  /\ resp.question[1] \in eligible
                  /\ resp.question[1].id \notin Range(P)
                  /\ c # 0 => resp.question[1].category = c

\* a question of the category asked for, while another of it is excluded
C6_Witness ==
    /\ Served("next_question")
    /\ req.body \in WellFormedQuizBodies
    /\ req.body.quiz_category_id.n # 0
    /\ resp.status = 200
    /\ \E q \in Range(questions) :
           /\ q.category = req.body.quiz_category_id.n
           /\ q.id \in Range(req.body.previous_questions.l)

\* C7: POST /quizzes with a non-zero quiz_category.id that is no existing
\* Category's id answers NotFound in every reachable state of the store.
C7_UnknownCategoryNotFound ==
    (/\ Served("next_question")
     /\ req.body \in WellFormedQuizBodies
     /\ req.body.quiz_category_id.n # 0
     /\ \A i \in 1..Len(categories) :
            categories[i].id # req.body.quiz_category_id.n)
        => resp.status = 404

\* C8: paginate_questions returns the empty sequence for every page outside
\* 1 .. ceil(total/10), page 0 and negative pages included.
C8_OutOfRangeEmpty ==
    (/\ Served("get_questions")
     /\ PageArg(req.page) \notin 1..Ceil10(Len(before.questions)))
        => /\ resp.questions = <<>>
           /\ paginate_questions(req.page, before.questions) = <<>>

\* C9: every request to any endpoint, whatever its body and whatever the
\* storage does, ends in success or in one of BadRequest, NotFound and
\* Unprocessable; none ends in an unhandled fault.
C9_NoUnhandledFault ==
    ~Idle => resp.status \in {200, 400, 404, 422}

\* C10: a quiz session that starts with previous_questions = [] and appends
\* each returned id, its category fixed and the tables untouched, gets every
\* question of the filter exactly once, never a repeat, and NotFound on
\* exactly call n+1, n the number of questions of the filter.
C10_QuizSession ==
    LET pool == Eligible(questions, quiz_category, <<>>)
        n == Cardinality(pool)
    IN /\ \A i, j \in 1..Len(previous_questions) :
              i # j => previous_questions[i] # previous_questions[j]
       /\ Range(previous_questions) \subseteq {q.id : q \in pool}
       /\ calls <= n + 1
       /\ Len(previous_questions) = Min(calls, n)
       /\ req.op = "next_question" =>
              /\ calls <= n => resp.status = 200
              /\ calls = n + 1 => resp.status = 404
       /\ calls = n + 1 => Range(previous_questions) = {q.id : q \in pool}

\* a session over four questions, ended by NotFound on its fifth call
C10_Witness ==
    /\ req.op = "next_question"
    /\ calls = 5
    /\ Len(previous_questions) = 4
    /\ resp.status = 404

=============================================================================
